---- MODULE Spec2Model ----
(***************************************************************************)
(* Model of src/main.rs: a line parser that fills two integer lists from   *)
(* input.txt and a distance calculator that sorts both lists and sums the  *)
(* absolute differences of same-rank elements.                             *)
(*                                                                         *)
(* Two specifications share the variables:                                 *)
(*   Spec      the whole run of main() over an input file;                 *)
(*   SpecCalc  calculate_total_distance applied to drawn argument lists.   *)
(*                                                                         *)
(* i64 is modelled as a two's-complement integer of IntBits bits, so that  *)
(* its limits are within the model checker's reach; the decimal parser     *)
(* rejects what does not fit, as str::parse::<i64> does.                   *)
(***************************************************************************)
EXTENDS Integers, Sequences, FiniteSets, TLC

\* ------------------------------------------------------------------ bounds
IntBits == 5
MaxLines == 3
MaxLen == 3

\* ------------------------------------------------------------ i64 arithmetic
RECURSIVE Pow2(_)
Pow2(n) == IF n = 0 THEN 1 ELSE 2 * Pow2(n - 1)

I64_MAX == Pow2(IntBits - 1) - 1
I64_MIN == -Pow2(IntBits - 1)

InI64(x) == x >= I64_MIN /\ x <= I64_MAX

\* the value a release build keeps after an overflowing operation
Wrap(x) == ((x - I64_MIN) % Pow2(IntBits)) + I64_MIN

\* ------------------------------------------------------------ text handling
WhiteSpace == {" ", "\t"}
DigitChars == {"0", "1", "2", "3", "4", "5", "6", "7", "8", "9"}

to_digit(c) ==
    CASE c = "0" -> 0 [] c = "1" -> 1 [] c = "2" -> 2 [] c = "3" -> 3
      [] c = "4" -> 4 [] c = "5" -> 5 [] c = "6" -> 6 [] c = "7" -> 7
      [] c = "8" -> 8 [] c = "9" -> 9

RECURSIVE trim_start(_)
trim_start(s) ==
    IF s # <<>> /\ s[1] \in WhiteSpace THEN trim_start(Tail(s)) ELSE s

RECURSIVE trim_end(_)
trim_end(s) ==
    IF s # <<>> /\ s[Len(s)] \in WhiteSpace
    THEN trim_end(SubSeq(s, 1, Len(s) - 1))
    ELSE s

trim(s) == trim_end(trim_start(s))

\* the tokens of s: its maximal runs of non-whitespace characters, in order
RECURSIVE SplitFrom(_, _, _)
SplitFrom(s, cur, acc) ==
    IF s = <<>>
    THEN IF cur = <<>> THEN acc ELSE Append(acc, cur)
    ELSE IF s[1] \in WhiteSpace
         THEN SplitFrom(Tail(s), <<>>, IF cur = <<>> THEN acc ELSE Append(acc, cur))
         ELSE SplitFrom(Tail(s), Append(cur, s[1]), acc)

split_whitespace(s) == SplitFrom(s, <<>>, <<>>)

ParseOk(v) == [ok |-> TRUE, val |-> v, err |-> "none"]
ParseErr(e) == [ok |-> FALSE, val |-> 0, err |-> e]

\* digit loop of the integer parser: checked multiply by ten, then checked
\* add (or subtract for a negative literal) of the digit
RECURSIVE ParseDigits(_, _, _)
ParseDigits(digits, positive, result) ==
    IF digits = <<>> THEN ParseOk(result)
    ELSE IF digits[1] \notin DigitChars THEN ParseErr("InvalidDigit")
    ELSE LET mul == result * 10
             x == to_digit(digits[1])
             next == IF positive THEN mul + x ELSE mul - x
         IN IF ~InI64(mul) \/ ~InI64(next)
            THEN ParseErr(IF positive THEN "PosOverflow" ELSE "NegOverflow")
            ELSE ParseDigits(Tail(digits), positive, next)

\* str::parse::<i64>
parse(tok) ==
    IF tok = <<>> THEN ParseErr("Empty")
    ELSE IF tok[1] \in {"+", "-"} /\ Len(tok) = 1 THEN ParseErr("InvalidDigit")
    ELSE IF tok[1] = "+" THEN ParseDigits(Tail(tok), TRUE, 0)
    ELSE IF tok[1] = "-" THEN ParseDigits(Tail(tok), FALSE, 0)
    ELSE ParseDigits(tok, TRUE, 0)

\* ------------------------------------------------------------------- inputs
\* decimal text of a natural number, used to write the input lines below
RECURSIVE Dec(_)
Dec(n) ==
    LET d == <<"0", "1", "2", "3", "4", "5", "6", "7", "8", "9">>
    IN IF n < 10 THEN <<d[n + 1]>> ELSE Dec(n \div 10) \o <<d[(n % 10) + 1]>>

T_3_4 == <<"3", " ", "4">>
T_4_3 == <<" ", "4", "\t", " ", "3", " ">>
T_m1_p2 == <<"-", "1", " ", "+", "2">>
T_max_m1 == Dec(I64_MAX) \o <<" ", "-", "1">>
T_min_1 == <<"-">> \o Dec(I64_MAX + 1) \o <<" ", "1">>
T_empty == <<>>
T_blank == <<" ", "\t">>
T_5_abc == <<"5", " ", "a", "b", "c">>
T_abc_5 == <<"a", "b", "c", " ", "5">>
T_a_b == <<"a", " ", "b">>
T_big_1 == Dec(I64_MAX + 1) \o <<" ", "1">>
T_7_8_9 == <<"7", " ", "8", " ", "9">>
T_7 == <<" ", "7", " ">>

\* The lines an input file is made of, each with what the format of the
\* input says about it: class "valid" with its two values, "blank", or a
\* malformed class with the kind and content its diagnostic has to carry.
Corpus ==
    { [text |-> T_3_4,    class |-> "valid", l |-> 3, r |-> 4, content |-> <<>>],
      [text |-> T_4_3,    class |-> "valid", l |-> 4, r |-> 3, content |-> <<>>],
      [text |-> T_m1_p2,  class |-> "valid", l |-> -1, r |-> 2, content |-> <<>>],
      [text |-> T_max_m1, class |-> "valid", l |-> I64_MAX, r |-> -1, content |-> <<>>],
      [text |-> T_min_1,  class |-> "valid", l |-> I64_MIN, r |-> 1, content |-> <<>>],
      [text |-> T_empty,  class |-> "blank", l |-> 0, r |-> 0, content |-> <<>>],
      [text |-> T_blank,  class |-> "blank", l |-> 0, r |-> 0, content |-> <<>>],
      [text |-> T_5_abc,  class |-> "parse_second", l |-> 0, r |-> 0,
       content |-> <<"a", "b", "c">>],
      [text |-> T_abc_5,  class |-> "parse_first", l |-> 0, r |-> 0,
       content |-> <<"a", "b", "c">>],
      [text |-> T_a_b,    class |-> "parse_first", l |-> 0, r |-> 0, content |-> <<"a">>],
      [text |-> T_big_1,  class |-> "parse_first", l |-> 0, r |-> 0,
       content |-> Dec(I64_MAX + 1)],
      [text |-> T_7_8_9,  class |-> "token_count", l |-> 0, r |-> 0, content |-> T_7_8_9],
      [text |-> T_7,      class |-> "token_count", l |-> 0, r |-> 0, content |-> <<"7">>] }

\* what reader.lines() yields for one line: the text, or a read failure
LineOk(t) == [ok |-> TRUE, text |-> t]
LineErr == [ok |-> FALSE, text |-> <<>>]
LineResults == {LineOk(c.text) : c \in Corpus} \cup {LineErr}

SeqsUpTo(S, n) == UNION {[1..k -> S] : k \in 0..n}

Files == SeqsUpTo(LineResults, MaxLines)

\* values the calculator's argument lists are drawn from
Values == {I64_MIN, -1, 1, I64_MAX}

\* -------------------------------------------------------------------- state
VARIABLES
    overflow_checks, \* the build: overflow panics (debug) or wraps (release)
    file_open,       \* whether File::open("input.txt") succeeds
    file,            \* what reader.lines() yields, line by line
    pc,              \* position of main
    line_num, left_list, right_list,
    stdout, stderr,
    calls,           \* invocations of calculate_total_distance by main
    exit,            \* how the process ended
    arg_left, arg_right, \* SpecCalc: the arguments of the call
    ret,             \* SpecCalc: outcome of the last call
    ret_base,        \* SpecCalc: outcome of the call before the arguments were rearranged
    rel,             \* SpecCalc: how the arguments were rearranged
    hpc              \* SpecCalc: position of the caller

prog_vars == <<file_open, file, pc, line_num, left_list, right_list,
               stdout, stderr, calls, exit>>
calc_vars == <<arg_left, arg_right, ret, ret_base, rel, hpc>>
vars == <<overflow_checks, prog_vars, calc_vars>>

\* ------------------------------------------------- calculate_total_distance
Return(v) == [kind |-> "return", value |-> v]
Panic == [kind |-> "panic", value |-> 0]
NoRet == [kind |-> "none", value |-> 0]

RECURSIVE Insert(_, _)
Insert(x, s) ==
    IF s = <<>> THEN <<x>>
    ELSE IF x <= s[1] THEN <<x>> \o s
    ELSE <<s[1]>> \o Insert(x, Tail(s))

\* slice::sort_unstable on integers: the elements in ascending order
RECURSIVE sort_unstable(_)
sort_unstable(s) ==
    IF s = <<>> THEN <<>> ELSE Insert(s[1], sort_unstable(Tail(s)))

\* an i64 operation whose exact result is x: the value if it fits; if not,
\* a panic in a build with overflow checks and the wrapped value otherwise
Checked(x) ==
    IF InI64(x) THEN Return(x)
    ELSE IF overflow_checks THEN Panic
    ELSE Return(Wrap(x))

\* i64::abs
i64_abs(x) == IF x < 0 THEN Checked(-x) ELSE Return(x)

\* mutant: the difference without .abs()
AbsDiffSigned(l, r) == Checked(l - r)

\* the closure |(&l, &r)| (l - r).abs()
AbsDiff(l, r) ==
    LET d == Checked(l - r)
    IN IF d.kind = "panic" THEN Panic ELSE i64_abs(d.value)

\* .zip().map().sum() over the sorted copies, from index i with running sum acc
RECURSIVE SumFrom(_, _, _, _)
SumFrom(ls, rs, i, acc) ==
    IF i > Len(ls) \/ i > Len(rs) THEN Return(acc)
    ELSE LET a == AbsDiff(ls[i], rs[i])
         IN IF a.kind = "panic" THEN Panic
            ELSE LET s == Checked(acc + a.value)
                 IN IF s.kind = "panic" THEN Panic
                    ELSE SumFrom(ls, rs, i + 1, s.value)

\* mutant: the left copy is not sorted
CalcLeftUnsorted(left, right) ==
    IF Len(left) # Len(right) THEN Panic
    ELSE SumFrom(left, sort_unstable(right), 1, 0)

\* mutant: the right copy is not sorted
CalcRightUnsorted(left, right) ==
    IF Len(left) # Len(right) THEN Panic
    ELSE SumFrom(sort_unstable(left), right, 1, 0)

calculate_total_distance(left, right) ==
    IF Len(left) # Len(right) THEN Panic
    ELSE LET left_sorted == sort_unstable(left)
             right_sorted == sort_unstable(right)
         IN SumFrom(left_sorted, right_sorted, 1, 0)

\* --------------------------------------------------------------------- main
Out(k, v) == [kind |-> k, value |-> v]
Diag(k, n, c, d) == [kind |-> k, line |-> n, content |-> c, detail |-> d]

\* what one line adds: values pushed to each list and diagnostics printed
Effect(l, r, d) == [left |-> l, right |-> r, diag |-> d]

\* mutant: each value is pushed as soon as its own token parses
MatchParsedEager(parse_left, parse_right, parts, n) ==
    Effect(IF parse_left.ok THEN <<parse_left.val>> ELSE <<>>,
           IF parse_right.ok THEN <<parse_right.val>> ELSE <<>>,
           IF ~parse_left.ok
           THEN <<Diag("parse_first", n, parts[1], parse_left.err)>>
           ELSE IF ~parse_right.ok
           THEN <<Diag("parse_second", n, parts[2], parse_right.err)>>
           ELSE <<>>)

\* mutant: a token that does not parse counts as 0 (unwrap_or_default)
MatchParsedDefault(parse_left, parse_right, parts, n) ==
    Effect(<<parse_left.val>>, <<parse_right.val>>,
           IF ~parse_left.ok
           THEN <<Diag("parse_first", n, parts[1], parse_left.err)>>
           ELSE IF ~parse_right.ok
           THEN <<Diag("parse_second", n, parts[2], parse_right.err)>>
           ELSE <<>>)

\* lines 76-94: the match on the two parse results of line n
MatchParsed(parse_left, parse_right, parts, n) ==
    IF parse_left.ok /\ parse_right.ok
    THEN Effect(<<parse_left.val>>, <<parse_right.val>>, <<>>)
    ELSE IF ~parse_left.ok
    THEN Effect(<<>>, <<>>, <<Diag("parse_first", n, parts[1], parse_left.err)>>)
    ELSE Effect(<<>>, <<>>, <<Diag("parse_second", n, parts[2], parse_right.err)>>)

\* mutant: no is_empty() test, a blank line reaches the token count
LineEffectNoBlankTest(line_result, n) ==
    IF ~line_result.ok
    THEN Effect(<<>>, <<>>, <<Diag("read_error", n, <<>>, "io")>>)
    ELSE LET trimmed_line == trim(line_result.text)
             parts == split_whitespace(trimmed_line)
         IN IF Len(parts) = 2
            THEN MatchParsed(parse(parts[1]), parse(parts[2]), parts, n)
            ELSE Effect(<<>>, <<>>, <<Diag("token_count", n, trimmed_line, "none")>>)

\* lines 56-100: the body of the loop for the line numbered n
LineEffect(line_result, n) ==
    IF ~line_result.ok
    THEN Effect(<<>>, <<>>, <<Diag("read_error", n, <<>>, "io")>>)
    ELSE LET trimmed_line == trim(line_result.text)
         IN IF trimmed_line = <<>> THEN Effect(<<>>, <<>>, <<>>)
            ELSE LET parts == split_whitespace(trimmed_line)
                 IN IF Len(parts) = 2
                    THEN MatchParsed(parse(parts[1]), parse(parts[2]), parts, n)
                    ELSE Effect(<<>>, <<>>,
                                <<Diag("token_count", n, trimmed_line, "none")>>)

\* mutant: the iterator ends at the first line that fails to read
\* (reader.lines().map_while(Result::ok))
HasNextLineMapWhile == line_num < Len(file) /\ file[line_num + 1].ok

\* reader.lines() has another item
HasNextLine == line_num < Len(file)

Init ==
    /\ overflow_checks \in BOOLEAN
    /\ file_open \in BOOLEAN
    /\ file \in Files
    /\ (~file_open => file = <<>>)
    /\ pc = "open"
    /\ line_num = 0
    /\ left_list = <<>>
    /\ right_list = <<>>
    /\ stdout = <<>>
    /\ stderr = <<>>
    /\ calls = 0
    /\ exit = "running"
    /\ arg_left = <<>>
    /\ arg_right = <<>>
    /\ ret = NoRet
    /\ ret_base = NoRet
    /\ rel = "none"
    /\ hpc = "idle"

\* lines 36-52
OpenFile ==
    /\ pc = "open"
    /\ IF file_open
       THEN /\ stdout' = Append(stdout, Out("attempt", 0))
            /\ pc' = "loop"
            /\ UNCHANGED <<stderr, exit>>
       ELSE /\ stdout' = Append(stdout, Out("attempt", 0))
            /\ stderr' = stderr \o <<Diag("open_failed", 0, <<>>, "io"),
                                     Diag("open_hint", 0, <<>>, "none")>>
            /\ exit' = "failure"
            /\ pc' = "done"
    /\ UNCHANGED <<overflow_checks, file_open, file, line_num, left_list, right_list,
                   calls, calc_vars>>

\* lines 54-101, one iteration
ProcessLine ==
    /\ pc = "loop"
    /\ HasNextLine
    /\ LET n == line_num + 1
           e == LineEffect(file[n], n)
       IN /\ line_num' = n
          /\ left_list' = left_list \o e.left
          /\ right_list' = right_list \o e.right
          /\ stderr' = stderr \o e.diag
    /\ UNCHANGED <<overflow_checks, file_open, file, pc, stdout, calls, exit, calc_vars>>

\* line 103, after the iterator is exhausted
EndOfFile ==
    /\ pc = "loop"
    /\ ~HasNextLine
    /\ stdout' = Append(stdout, Out("finished", Len(left_list)))
    /\ pc' = "report"
    /\ UNCHANGED <<overflow_checks, file_open, file, line_num, left_list, right_list,
                   stderr, calls, exit, calc_vars>>

\* lines 105-120
Report ==
    /\ pc = "report"
    /\ pc' = "done"
    /\ IF left_list = <<>>
       THEN /\ stdout' = Append(stdout, Out("no_pairs", 0))
            /\ exit' = "success"
            /\ UNCHANGED <<stderr, calls>>
       ELSE IF Len(left_list) # Len(right_list)
       THEN /\ stderr' = Append(stderr, Diag("inconsistency", 0, <<>>, "none"))
            /\ exit' = "failure"
            /\ UNCHANGED <<stdout, calls>>
       ELSE LET total_dist == calculate_total_distance(left_list, right_list)
            IN /\ calls' = calls + 1
               /\ IF total_dist.kind = "panic"
                  THEN /\ exit' = "panic"
                       /\ UNCHANGED stdout
                  ELSE /\ stdout' = Append(stdout, Out("total", total_dist.value))
                       /\ exit' = "success"
               /\ UNCHANGED stderr
    /\ UNCHANGED <<overflow_checks, file_open, file, line_num, left_list, right_list,
                   calc_vars>>

Next == OpenFile \/ ProcessLine \/ EndOfFile \/ Report

Spec == Init /\ [][Next]_vars

TypeOK ==
    /\ pc \in {"open", "loop", "report", "done"}
    /\ exit \in {"running", "success", "failure", "panic"}
    /\ line_num \in 0..Len(file)

\* ------------------------------------------- calls of the distance calculator
\* argument lists of equal length over Values, and lists of unequal length
CalcInputs ==
    UNION {[1..k -> Values] \X [1..k -> Values] : k \in 0..MaxLen}
    \cup {a \in SeqsUpTo({1}, MaxLen) \X SeqsUpTo({1}, MaxLen) : Len(a[1]) # Len(a[2])}

\* s with the elements at i and i + 1 exchanged
SwapAt(s, i) ==
    [k \in 1..Len(s) |-> IF k = i THEN s[i + 1] ELSE IF k = i + 1 THEN s[i] ELSE s[k]]

InitCalc ==
    /\ overflow_checks \in BOOLEAN
    /\ \E a \in CalcInputs : arg_left = a[1] /\ arg_right = a[2]
    /\ ret = NoRet
    /\ ret_base = NoRet
    /\ rel = "none"
    /\ hpc = "args"
    /\ file_open = FALSE
    /\ file = <<>>
    /\ pc = "idle"
    /\ line_num = 0
    /\ left_list = <<>>
    /\ right_list = <<>>
    /\ stdout = <<>>
    /\ stderr = <<>>
    /\ calls = 0
    /\ exit = "running"

\* calculate_total_distance(&arg_left, &arg_right)
CalcCall ==
    /\ hpc = "args"
    /\ ret' = calculate_total_distance(arg_left, arg_right)
    /\ hpc' = "ret"
    /\ UNCHANGED <<overflow_checks, prog_vars, arg_left, arg_right, ret_base, rel>>

\* call again with the two arguments exchanged
CalcSwap ==
    /\ hpc = "ret"
    /\ rel = "none"
    /\ arg_left' = arg_right
    /\ arg_right' = arg_left
    /\ ret_base' = ret
    /\ rel' = "swap"
    /\ hpc' = "args"
    /\ UNCHANGED <<overflow_checks, prog_vars, ret>>

\* call again with two neighbouring elements of one argument exchanged
CalcPermute ==
    /\ hpc = "ret"
    /\ rel \in {"none", "perm"}
    /\ \/ \E i \in 1..(Len(arg_left) - 1) :
            /\ arg_left[i] # arg_left[i + 1]
            /\ arg_left' = SwapAt(arg_left, i)
            /\ UNCHANGED arg_right
       \/ \E i \in 1..(Len(arg_right) - 1) :
            /\ arg_right[i] # arg_right[i + 1]
            /\ arg_right' = SwapAt(arg_right, i)
            /\ UNCHANGED arg_left
    /\ ret_base' = IF rel = "none" THEN ret ELSE ret_base
    /\ rel' = "perm"
    /\ hpc' = "args"
    /\ UNCHANGED <<overflow_checks, prog_vars, ret>>

\* call again with the left list as both arguments
CalcSelf ==
    /\ hpc = "ret"
    /\ rel = "none"
    /\ arg_right' = arg_left
    /\ ret_base' = ret
    /\ rel' = "self"
    /\ hpc' = "args"
    /\ UNCHANGED <<overflow_checks, prog_vars, arg_left, ret>>

NextCalc == CalcCall \/ CalcSwap \/ CalcPermute \/ CalcSelf

SpecCalc == InitCalc /\ [][NextCalc]_vars

\* ------------------------------------------------- reference definitions
\* what the input format says about a line (see Corpus)
ClassOf(line_result) ==
    IF ~line_result.ok
    THEN [text |-> <<>>, class |-> "read_error", l |-> 0, r |-> 0, content |-> <<>>]
    ELSE CHOOSE c \in Corpus : c.text = line_result.text

RECURSIVE ValidFirsts(_)
ValidFirsts(f) ==
    IF f = <<>> THEN <<>>
    ELSE LET c == ClassOf(f[1])
         IN (IF c.class = "valid" THEN <<c.l>> ELSE <<>>) \o ValidFirsts(Tail(f))

RECURSIVE ValidSeconds(_)
ValidSeconds(f) ==
    IF f = <<>> THEN <<>>
    ELSE LET c == ClassOf(f[1])
         IN (IF c.class = "valid" THEN <<c.r>> ELSE <<>>) \o ValidSeconds(Tail(f))

\* positions, among the first n lines of f, of the malformed lines
RECURSIVE MalformedUpTo(_, _)
MalformedUpTo(f, n) ==
    IF n = 0 THEN <<>>
    ELSE MalformedUpTo(f, n - 1)
         \o (IF ClassOf(f[n]).class \in {"valid", "blank"} THEN <<>> ELSE <<n>>)

Count(s, x) == Cardinality({i \in 1..Len(s) : s[i] = x})
Range(s) == {s[i] : i \in 1..Len(s)}

\* the ascending arrangement of s
SortedOf(s) ==
    CHOOSE t \in [1..Len(s) -> Range(s)] :
        /\ \A i \in 1..(Len(s) - 1) : t[i] <= t[i + 1]
        /\ \A x \in Range(s) : Count(t, x) = Count(s, x)

RECURSIVE SumAbs(_, _, _)
SumAbs(a, b, i) ==
    IF i > Len(a) THEN 0
    ELSE (IF a[i] >= b[i] THEN a[i] - b[i] ELSE b[i] - a[i]) + SumAbs(a, b, i + 1)

\* the distance of the glossary, in unbounded integers
Distance(l, r) == SumAbs(SortedOf(l), SortedOf(r), 1)

HasDiag(k) == \E i \in 1..Len(stderr) : stderr[i].kind = k
HasOut(k) == \E i \in 1..Len(stdout) : stdout[i].kind = k

\* no difference of same-rank elements and no partial sum leaves the i64 range
FitsI64(l, r) ==
    LET a == SortedOf(l)
        b == SortedOf(r)
    IN /\ \A i \in 1..Len(a) : InI64(a[i] - b[i]) /\ a[i] - b[i] # I64_MIN
       /\ Distance(l, r) <= I64_MAX

\* ------------------------------------------------------- supporting checks
\* where nothing overflows the call returns the distance (invariant of SpecCalc)
ReturnsDistanceWhenFits ==
    (hpc = "ret" /\ Len(arg_left) = Len(arg_right) /\ FitsI64(arg_left, arg_right)) =>
        ret = Return(Distance(arg_left, arg_right))

\* the worked example of the specification
ScenarioA ==
    calculate_total_distance(<<3, 4, 2, 1, 3, 3>>, <<4, 3, 5, 3, 9, 3>>) = Return(11)

\* the process ends by a panic only out of the calculator's call, in a build
\* with overflow checks (invariant of Spec)
RunOutcomeKinds == exit = "panic" => (pc = "done" /\ calls = 1 /\ overflow_checks)

\* ------------------------------------------------------------------ claims
\* C1: after every line the parse loop processes, and so when parsing
\* completes, the left and the right list have the same length, whatever
\* mixture of valid, blank, malformed and unreadable lines the file holds.
C1_EqualLengths == Len(left_list) = Len(right_list)

\* C1 witness: parsing is complete, a pair was recorded, and a line whose
\* second token did not parse and a line that could not be read were skipped.
C1_Witness ==
    /\ pc = "report"
    /\ Len(left_list) >= 1
    /\ HasDiag("parse_second")
    /\ HasDiag("read_error")

\* C3: a line with a token count other than 2, or with a token that does not
\* parse (even if the other one does), leaves both lists unchanged; the lists
\* change only on a line whose two tokens parse, and then each gets its value
\* appended in the same step.
C3_SkippedLinesRecordNothing ==
    [][(pc = "loop" /\ line_num' = line_num + 1) =>
         LET c == ClassOf(file[line_num'])
         IN IF c.class = "valid"
            THEN /\ left_list' = Append(left_list, c.l)
                 /\ right_list' = Append(right_list, c.r)
            ELSE UNCHANGED <<left_list, right_list>>]_vars

\* C3 witness: after a recorded pair, the line "abc 5" (second token parses,
\* first does not) was just processed and reported.
C3_Witness ==
    /\ pc = "loop"
    /\ line_num >= 2
    /\ file[line_num] = LineOk(T_abc_5)
    /\ Len(left_list) >= 1
    /\ stderr # <<>>
    /\ stderr[Len(stderr)].kind = "parse_first"
    /\ stderr[Len(stderr)].line = line_num

DiagsAgree(read_content) ==
    LET idx == MalformedUpTo(file, line_num)
    IN /\ Len(stderr) = Len(idx)
       /\ \A k \in 1..Len(idx) :
            LET c == ClassOf(file[idx[k]])
                d == stderr[k]
            IN /\ d.line = idx[k]
               /\ d.kind = c.class
               /\ IF c.class = "read_error"
                  THEN IF read_content THEN d.content # <<>>
                       ELSE d.content = <<>> /\ d.detail = "io"
                  ELSE d.content = c.content

C5_RunOutcome ==
    pc = "done" =>
        /\ exit \in {"success", "failure", "panic"}
        /\ (exit # "success") <=> (~file_open \/ Len(left_list) # Len(right_list))
        /\ (file_open /\ left_list = <<>>) =>
              /\ HasOut("no_pairs")
              /\ calls = 0
              /\ ~HasOut("total")
        /\ (file_open /\ left_list # <<>> /\ Len(left_list) = Len(right_list)) =>
              /\ calls = 1
              /\ stdout[Len(stdout)].kind = "total"
              /\ ~HasOut("no_pairs")

\* C10: for the lists the parser produces, no step of the calculation leaves
\* the i64 range: the run prints a total that is >= 0 and equal to the exact
\* sum of the absolute differences of the sorted lists.
C10_NoOverflow ==
    (pc = "done" /\ calls = 1) =>
        /\ exit = "success"
        /\ stdout[Len(stdout)].kind = "total"
        /\ stdout[Len(stdout)].value >= 0
        /\ stdout[Len(stdout)].value = Distance(left_list, right_list)

\* C2: for argument lists of equal length the call returns the sum over i of
\* |sorted_left[i] - sorted_right[i]|, the lists sorted ascending
\* independently of each other.
C2_ReturnsDistance ==
    (hpc = "ret" /\ Len(arg_left) = Len(arg_right)) =>
        ret = Return(Distance(arg_left, arg_right))

\* C6: for lists of equal length, the call with the arguments exchanged has
\* the same outcome as the call before.
C6_Symmetry ==
    (hpc = "ret" /\ rel = "swap" /\ Len(arg_left) = Len(arg_right)) => ret = ret_base

\* C6 witness: a call with exchanged, different arguments returned a
\* positive distance.
C6_Witness ==
    /\ hpc = "ret"
    /\ rel = "swap"
    /\ Len(arg_left) >= 2
    /\ Range(arg_left) # Range(arg_right)
    /\ ret.kind = "return"
    /\ ret.value > 0

\* C7: for lists of equal length, the call on rearranged arguments has the
\* same outcome as the call on the arguments as first given.
C7_OrderIndependence ==
    (hpc = "ret" /\ rel = "perm" /\ Len(arg_left) = Len(arg_right)) => ret = ret_base

\* C7 witness: a call returned a positive distance on rearranged arguments,
\* neither of which is in ascending order.
C7_Witness ==
    /\ hpc = "ret"
    /\ rel = "perm"
    /\ Len(arg_left) >= 3
    /\ arg_left # SortedOf(arg_left)
    /\ arg_right # SortedOf(arg_right)
    /\ ret.kind = "return"
    /\ ret.value > 0

\* C9: a call with the same list as both arguments, the empty list
\* included, returns 0.
C9_SelfDistanceZero == (hpc = "ret" /\ arg_left = arg_right) => ret = Return(0)

\* C9 witness: a call with an unsorted list holding both limits of the
\* integer range as both arguments has returned.
C9_Witness ==
    /\ hpc = "ret"
    /\ rel = "self"
    /\ Len(arg_left) >= 2
    /\ arg_left # SortedOf(arg_left)
    /\ {I64_MIN, I64_MAX} \subseteq Range(arg_left)
    /\ arg_right = arg_left

====
